---- MODULE Spec2Model ----
(***************************************************************************)
(* A model of gpol/utils/solution.py: the class Solution, its class-level  *)
(* counter id_, the constructor, _get_copy and __len__.                    *)
(*                                                                         *)
(* Python objects that are shared by reference (lists, tensors) live in a  *)
(* heap, a sequence of cells addressed by their index; a Solution holds    *)
(* addresses.  A Solution is a record of its attribute values together     *)
(* with attrs, the set of attribute names its __dict__ holds (what hasattr *)
(* tests).                                                                 *)
(***************************************************************************)
EXTENDS Integers, Sequences, FiniteSets, TLC

\* ---- bounds of the model ------------------------------------------------
MaxSols == 3        \* Solution objects ever constructed
MaxLen == 2         \* length of a representation
MaxOps == 2         \* attribute writes and in-place mutations by the collaborators
MaxRounds == 2      \* constructions per thread (concurrent specification)

Vals == {0, 1}
Threads == {1, 2}

\* Python's None, as the value of a reference-valued attribute.
None == 0

VARIABLES
    id_,        \* Solution.id_, the class attribute
    sols,       \* every Solution ever constructed, in construction order
    live,       \* indices of sols the caller holds (a copy that raised is not)
    heap,       \* lists and tensors by address: [kind, data]
    last,       \* the last call: [op, arg, ret, raised, id0]
    copies,     \* history: one record per returned copy
    nOps,       \* history: number of attribute writes and mutations so far
    pc,         \* per thread: position inside __init__
    frame,      \* per thread: the locals of __init__
    rounds,     \* per thread: constructions started
    overlap     \* history: some construction began while another was running

vars == <<id_, sols, live, heap, last, copies, nOps, pc, frame, rounds, overlap>>
seqVars == <<last, copies, nOps>>
thrVars == <<pc, frame, rounds, overlap>>

\* ---- the heap --------------------------------------------------------------

\* Where the allocator puts the cells made for the n-th object: the cell of
\* its representation, of its fit, of its test_fit and of its val_fit.
ReprAddr(n) == 4 * (n - 1) + 1
FitAddr(n) == 4 * (n - 1) + 2
TestFitAddr(n) == 4 * (n - 1) + 3
ValFitAddr(n) == 4 * (n - 1) + 4

FieldAddr(n, name) == IF name = "test_fit" THEN TestFitAddr(n) ELSE ValFitAddr(n)

\* ---- the class ------------------------------------------------------------

\* hasattr(obj, name)
HasAttr(obj, name) == name \in obj.attrs

\* Solution.id_ += 1
NextIdStuck(c) == c
NextId(c) == c + 1

\* __init__: the attributes of a new object; the id is the counter as read.
SolutionInitLate(repr, counter) ==
    [attrs |-> {"_id", "repr_", "valid", "fit"},
     _id |-> counter + 1, repr_ |-> repr, valid |-> "None", fit |-> None,
     test_fit |-> None, val_fit |-> None]
SolutionInit(repr, counter) ==
    [attrs |-> {"_id", "repr_", "valid", "fit"},
     _id |-> counter, repr_ |-> repr, valid |-> "None", fit |-> None,
     test_fit |-> None, val_fit |-> None]

\* torch.Tensor.clone() and list.copy(): a new cell of the same kind holding
\* the same elements (the elements themselves are shared, not cloned).
TensorClone(cell) == [kind |-> "tensor", data |-> SubSeq(cell.data, 1, Len(cell.data))]
ListCopy(cell) == [kind |-> cell.kind, data |-> SubSeq(cell.data, 1, Len(cell.data))]

\* The argument of the constructor call in _get_copy: the heap after the
\* clone and the address handed to Solution(...); new is the free address
\* the allocator gives the clone.
CloneReprAlias(h, a, new) == [heap |-> h, addr |-> a]
CloneRepr(h, a, new) ==
    IF h[a].kind = "tensor"
    THEN [heap |-> h @@ (new :> TensorClone(h[a])), addr |-> new]
    ELSE [heap |-> h @@ (new :> ListCopy(h[a])), addr |-> new]

\* self.fit.clone() / self.val_fit.clone()
CloneFitAlias(h, a, new) == [heap |-> h, addr |-> a]
CloneFit(h, a, new) == [heap |-> h @@ (new :> TensorClone(h[a])), addr |-> new]

\* if hasattr(self, 'valid'): sol_copy.valid = self.valid
CopyValidSkip(obj, c) == c
CopyValid(obj, c) ==
    IF HasAttr(obj, "valid") THEN [c EXCEPT !.valid = obj.valid] ELSE c

\* _get_copy as a function of the object, the heap and the counter; n is the
\* number of the object it constructs.  raised is 0 on return and otherwise
\* the line that raised AttributeError; sol is the object constructed
\* (returned only when raised = 0).
GetCopy(obj, h, counter, n) ==
    LET r == CloneRepr(h, obj.repr_, ReprAddr(n))
        c1 == CopyValid(obj, SolutionInit(r.addr, counter))
        n1 == NextId(counter)
    IN  IF HasAttr(obj, "fit") /\ obj.fit = None
        THEN [raised |-> 75, sol |-> c1, heap |-> r.heap, id_ |-> n1]
        ELSE
        LET f == IF HasAttr(obj, "fit") THEN CloneFit(r.heap, obj.fit, FitAddr(n))
                 ELSE [heap |-> r.heap, addr |-> None]
            c2 == IF HasAttr(obj, "fit") THEN [c1 EXCEPT !.fit = f.addr] ELSE c1
        IN  IF HasAttr(obj, "test_fit")
            THEN IF (~HasAttr(obj, "val_fit")) \/ obj.val_fit = None
                 THEN [raised |-> 77, sol |-> c2, heap |-> f.heap, id_ |-> n1]
                 ELSE LET v == CloneFit(f.heap, obj.val_fit, ValFitAddr(n))
                      IN  [raised |-> 0,
                           sol |-> [c2 EXCEPT !.val_fit = v.addr,
                                              !.attrs = @ \cup {"val_fit"}],
                           heap |-> v.heap, id_ |-> n1]
            ELSE [raised |-> 0, sol |-> c2, heap |-> f.heap, id_ |-> n1]

\* __len__
Range(f) == {f[i] : i \in DOMAIN f}
SolutionLenDistinct(h, obj) == Cardinality(Range(h[obj.repr_].data))
SolutionLen(h, obj) == Len(h[obj.repr_].data)

\* ---- inputs ---------------------------------------------------------------

\* The representations handed to the constructor: a tensor of the full
\* length (0, 1, 0, ...) or a one-element list (which append and pop then
\* grow and empty).
NewReprs ==
    {[kind |-> "tensor", data |-> [i \in 1..MaxLen |-> (i - 1) % 2]],
     [kind |-> "list", data |-> <<0>>]}

\* last, when the last step was no call of _get_copy or __len__
NoCall == [op |-> "none", arg |-> 0, ret |-> 0, raised |-> 0, id0 |-> 0]

\* Every history record learns that the cell at address a was changed.
Touch(a) == [k \in DOMAIN copies |-> [copies[k] EXCEPT !.touched = @ \cup {a}]]

Init ==
    /\ id_ = 0
    /\ sols = <<>>
    /\ live = {}
    /\ heap = <<>>
    /\ last = NoCall
    /\ copies = <<>>
    /\ nOps = 0
    /\ pc = [t \in Threads |-> "idle"]
    /\ frame = [t \in Threads |-> [repr_ |-> None, _id |-> 0, tmp |-> 0]]
    /\ rounds = [t \in Threads |-> 0]
    /\ overlap = FALSE

\* ---- single-threaded operations ---------------------------------------------

\* s = Solution(repr_), repr_ a list or tensor the caller has just built
New(r) ==
    LET n == Len(sols) + 1
    IN  /\ Len(sols) < MaxSols
        /\ heap' = heap @@ (ReprAddr(n) :> r)
        /\ sols' = Append(sols, SolutionInit(ReprAddr(n), id_))
        /\ id_' = NextId(id_)
        /\ live' = live \cup {n}
        /\ last' = NoCall
        /\ UNCHANGED <<copies, nOps>>
        /\ UNCHANGED thrVars

\* c = s._get_copy()
Copy(s) ==
    LET n == Len(sols) + 1
        g == GetCopy(sols[s], heap, id_, n)
    IN  /\ Len(sols) < MaxSols
        /\ heap' = g.heap
        /\ sols' = Append(sols, g.sol)
        /\ id_' = g.id_
        /\ live' = IF g.raised = 0 THEN live \cup {n} ELSE live
        /\ last' = [op |-> "copy", arg |-> s, ret |-> IF g.raised = 0 THEN n ELSE 0,
                    raised |-> g.raised, id0 |-> id_]
        /\ copies' = IF g.raised = 0
                     THEN Append(copies,
                            [src |-> s, cpy |-> n,
                             srcRepr |-> sols[s].repr_, cpyRepr |-> g.sol.repr_,
                             reprSnap |-> heap[sols[s].repr_].data,
                             srcFit |-> sols[s].fit, cpyFit |-> g.sol.fit,
                             fitSnap |-> heap[sols[s].fit].data,
                             touched |-> {}])
                     ELSE copies
        /\ UNCHANGED <<nOps>>
        /\ UNCHANGED thrVars

\* s.valid = b, by a feasibility check
SetValid(s, b) ==
    /\ nOps < MaxOps
    /\ sols[s].valid = "None"
    /\ sols' = [sols EXCEPT ![s].valid = b]
    /\ nOps' = nOps + 1
    /\ last' = NoCall
    /\ UNCHANGED <<id_, live, heap, copies>>
    /\ UNCHANGED thrVars

\* s.fit = tensor([0]), by a fitness evaluation
SetFit(s) ==
    /\ nOps < MaxOps
    /\ sols[s].fit = None
    /\ heap' = heap @@ (FitAddr(s) :> [kind |-> "tensor", data |-> <<0>>])
    /\ sols' = [sols EXCEPT ![s].fit = FitAddr(s)]
    /\ nOps' = nOps + 1
    /\ last' = NoCall
    /\ UNCHANGED <<id_, live, copies>>
    /\ UNCHANGED thrVars

\* s.test_fit = tensor([1]) or s.val_fit = tensor([1]), by an evaluation on
\* a held-out partition
SetValFit(s, name) ==
    /\ nOps < MaxOps
    /\ ~HasAttr(sols[s], name)
    /\ heap' = heap @@ (FieldAddr(s, name) :> [kind |-> "tensor", data |-> <<1>>])
    /\ sols' = [sols EXCEPT ![s][name] = FieldAddr(s, name),
                            ![s].attrs = @ \cup {name}]
    /\ nOps' = nOps + 1
    /\ last' = NoCall
    /\ UNCHANGED <<id_, live, copies>>
    /\ UNCHANGED thrVars

\* s.repr_[i] = v
SetItem(s, i, v) ==
    LET a == sols[s].repr_
    IN  /\ nOps < MaxOps
        /\ i \in 1..Len(heap[a].data)
        /\ heap[a].data[i] # v
        /\ heap' = [heap EXCEPT ![a].data[i] = v]
        /\ copies' = Touch(a)
        /\ nOps' = nOps + 1
        /\ last' = NoCall
        /\ UNCHANGED <<id_, sols, live>>
        /\ UNCHANGED thrVars

\* s.repr_.append(v), a list only
ListAppend(s, v) ==
    LET a == sols[s].repr_
    IN  /\ nOps < MaxOps
        /\ heap[a].kind = "list"
        /\ Len(heap[a].data) < MaxLen
        /\ heap' = [heap EXCEPT ![a].data = Append(@, v)]
        /\ copies' = Touch(a)
        /\ nOps' = nOps + 1
        /\ last' = NoCall
        /\ UNCHANGED <<id_, sols, live>>
        /\ UNCHANGED thrVars

\* s.repr_.pop(), a list only
ListPop(s) ==
    LET a == sols[s].repr_
    IN  /\ nOps < MaxOps
        /\ heap[a].kind = "list"
        /\ Len(heap[a].data) > 0
        /\ heap' = [heap EXCEPT ![a].data = SubSeq(@, 1, Len(@) - 1)]
        /\ copies' = Touch(a)
        /\ nOps' = nOps + 1
        /\ last' = NoCall
        /\ UNCHANGED <<id_, sols, live>>
        /\ UNCHANGED thrVars

\* s.fit[0] = v
SetFitItem(s, v) ==
    LET a == sols[s].fit
    IN  /\ nOps < MaxOps
        /\ a # None
        /\ heap[a].data[1] # v
        /\ heap' = [heap EXCEPT ![a].data[1] = v]
        /\ copies' = Touch(a)
        /\ nOps' = nOps + 1
        /\ last' = NoCall
        /\ UNCHANGED <<id_, sols, live>>
        /\ UNCHANGED thrVars

\* n = len(s)
QueryLen(s) ==
    /\ last' = [op |-> "len", arg |-> s, ret |-> SolutionLen(heap, sols[s]),
                raised |-> 0, id0 |-> id_]
    /\ UNCHANGED <<id_, sols, live, heap, copies, nOps>>
    /\ UNCHANGED thrVars

\* Construction, copying, the collaborators' attribute writes and len().
Next ==
    \/ \E r \in NewReprs : New(r)
    \/ \E s \in live : Copy(s)
    \/ \E s \in live, b \in {"True", "False"} : SetValid(s, b)
    \/ \E s \in live : SetFit(s)
    \/ \E s \in live, name \in {"test_fit", "val_fit"} : SetValFit(s, name)
    \/ \E s \in live : QueryLen(s)

Spec == Init /\ [][Next]_vars

\* Construction, evaluation, copying and in-place changes of the
\* representations and fitness tensors.
MutateNext ==
    \/ \E r \in NewReprs : New(r)
    \/ \E s \in live : Copy(s)
    \/ \E s \in live : SetFit(s)
    \/ \E s \in live, name \in {"test_fit", "val_fit"} : SetValFit(s, name)
    \/ \E s \in live, i \in 1..MaxLen, v \in Vals : SetItem(s, i, v)
    \/ \E s \in live, v \in Vals : ListAppend(s, v)
    \/ \E s \in live : ListPop(s)
    \/ \E s \in live, v \in Vals : SetFitItem(s, v)

MutateSpec == Init /\ [][MutateNext]_vars

\* Construction, copying of evaluated Solutions, growth and shrinkage of the
\* representations, and len().
LenNext ==
    \/ \E r \in NewReprs : New(r)
    \/ \E s \in live : Copy(s)
    \/ \E s \in live : SetFit(s)
    \/ \E s \in live, v \in Vals : ListAppend(s, v)
    \/ \E s \in live : ListPop(s)
    \/ \E s \in live : QueryLen(s)

LenSpec == Init /\ [][LenNext]_vars

\* ---- concurrent construction --------------------------------------------------
\* Two threads each call Solution(repr_); a thread may be preempted between
\* any two reads or writes of Solution.id_.

Busy(t) == pc[t] # "idle"

\* the call: the caller has built the list [0] and enters __init__
Call(t) ==
    LET k == rounds[1] + rounds[2] + 1
    IN  /\ pc[t] = "idle"
        /\ rounds[t] < MaxRounds
        /\ heap' = heap @@ (ReprAddr(k) :> [kind |-> "list", data |-> <<0>>])
        /\ frame' = [frame EXCEPT ![t] = [repr_ |-> ReprAddr(k), _id |-> 0, tmp |-> 0]]
        /\ rounds' = [rounds EXCEPT ![t] = @ + 1]
        /\ overlap' = (overlap \/ \E u \in Threads \ {t} : Busy(u))
        /\ pc' = [pc EXCEPT ![t] = "l49"]
        /\ UNCHANGED <<id_, sols, live>>
        /\ UNCHANGED seqVars

\* self._id = Solution.id_
L49(t) ==
    /\ pc[t] = "l49"
    /\ frame' = [frame EXCEPT ![t]._id = id_]
    /\ pc' = [pc EXCEPT ![t] = "l50load"]
    /\ UNCHANGED <<id_, sols, live, heap, rounds, overlap>>
    /\ UNCHANGED seqVars

\* Solution.id_ += 1: the read
L50load(t) ==
    /\ pc[t] = "l50load"
    /\ frame' = [frame EXCEPT ![t].tmp = id_]
    /\ pc' = [pc EXCEPT ![t] = "l50store"]
    /\ UNCHANGED <<id_, sols, live, heap, rounds, overlap>>
    /\ UNCHANGED seqVars

\* Solution.id_ += 1: the write
L50store(t) ==
    /\ pc[t] = "l50store"
    /\ id_' = NextId(frame[t].tmp)
    /\ pc' = [pc EXCEPT ![t] = "l51"]
    /\ UNCHANGED <<sols, live, heap, frame, rounds, overlap>>
    /\ UNCHANGED seqVars

\* self.repr_ = repr_; self.valid = None; self.fit = None; return
L51(t) ==
    /\ pc[t] = "l51"
    /\ sols' = Append(sols, SolutionInit(frame[t].repr_, frame[t]._id))
    /\ live' = live \cup {Len(sols) + 1}
    /\ pc' = [pc EXCEPT ![t] = "idle"]
    /\ UNCHANGED <<id_, heap, frame, rounds, overlap>>
    /\ UNCHANGED seqVars

ConcNext ==
    \/ \E t \in Threads : Call(t)
    \/ \E t \in Threads : L49(t)
    \/ \E t \in Threads : L50load(t)
    \/ \E t \in Threads : L50store(t)
    \/ \E t \in Threads : L51(t)

ConcSpec == Init /\ [][ConcNext]_vars

\* ---- properties ---------------------------------------------------------------

Quiescent == \A t \in Threads : ~Busy(t)

\* The validation fitness of an object, under whichever name it was written.
HasValidationFitness(obj) == HasAttr(obj, "val_fit") \/ HasAttr(obj, "test_fit")
ValidationFitness(obj) == IF HasAttr(obj, "val_fit") THEN obj.val_fit ELSE obj.test_fit

\* C1: copying a Solution whose fitness is unset (fit is None, as after
\* construction) does not raise and returns a copy whose fitness is unset.
C1_CopyToleratesUnsetFitness ==
    (last.op = "copy" /\ sols[last.arg].fit = None) =>
        /\ last.raised = 0
        /\ sols[last.ret].fit = None

\* C2: the ids of all Solutions ever constructed, directly or inside
\* _get_copy, are pairwise distinct and strictly increasing in construction
\* order.
C2_Uniqueness ==
    \A i, j \in 1..Len(sols) :
        i < j => (sols[i]._id # sols[j]._id /\ sols[i]._id < sols[j]._id)

\* A direct construction, a copy that returned and a third construction.
C2_Witness ==
    /\ Len(sols) >= 3
    /\ Len(copies) >= 1
    /\ \E i \in live : \A k \in DOMAIN copies : copies[k].cpy # i

\* C3: _get_copy treats the validation fitness like the fitness: it never
\* raises on its account, a copy of a Solution that has one carries an equal
\* one, and a copy of a Solution that has none has none; whichever of the
\* names test_fit and val_fit the evaluator wrote.
C3_ValidationFitnessCopied ==
    last.op = "copy" =>
        /\ last.raised # 77
        /\ last.raised = 0 =>
             LET s == sols[last.arg]
                 c == sols[last.ret]
             IN  IF HasValidationFitness(s)
                 THEN /\ HasValidationFitness(c)
                      /\ heap[ValidationFitness(c)].data = heap[ValidationFitness(s)].data
                 ELSE ~HasValidationFitness(c)

\* C4: every call of _get_copy returns a Solution whose id differs from the
\* id of the original and is the value the counter had before the call.
C4_CopyIdentityFreshness ==
    last.op = "copy" =>
        /\ last.raised = 0
        /\ sols[last.ret]._id # sols[last.arg]._id
        /\ sols[last.ret]._id = last.id0

\* C5: the representation of a returned copy is a cell other than the
\* original's and held the same elements when the copy was made; after any
\* replacements, appends and pops on one of the two cells the other still
\* holds the elements it had then.
C5_CopyIndependence ==
    \A k \in DOMAIN copies :
        LET c == copies[k]
        IN  /\ c.cpyRepr # c.srcRepr
            /\ c.cpyRepr \notin c.touched => heap[c.cpyRepr].data = c.reprSnap
            /\ c.srcRepr \notin c.touched => heap[c.srcRepr].data = c.reprSnap

\* The original's list has changed its length since the copy, the copy's
\* has not been touched.
C5_Witness ==
    \E k \in DOMAIN copies :
        LET c == copies[k]
        IN  /\ c.srcRepr \in c.touched
            /\ c.cpyRepr \notin c.touched
            /\ Len(heap[c.srcRepr].data) # Len(c.reprSnap)

C7_AtomicReadIncrement ==
    Quiescent =>
        /\ \A i, j \in 1..Len(sols) : i # j => sols[i]._id # sols[j]._id
        /\ id_ = Len(sols)

\* C7 (amended): the read and the increment are separate steps.  When no
\* construction has begun while another was running, the Solutions
\* constructed have different ids and the counter has advanced by their
\* number; under any interleaving every id and the counter stay within the
\* number of constructions.
C7_SequentialReadIncrement ==
    Quiescent =>
        /\ ~overlap =>
             /\ \A i, j \in 1..Len(sols) : i # j => sols[i]._id # sols[j]._id
             /\ id_ = Len(sols)
        /\ \A i \in 1..Len(sols) : sols[i]._id \in 0..(Len(sols) - 1)
        /\ Len(sols) > 0 => id_ \in 1..Len(sols)

\* Both threads have constructed, one after the other.
C7_Witness ==
    /\ Quiescent
    /\ ~overlap
    /\ \A t \in Threads : rounds[t] >= 1

\* C8: len(s) is the number of elements the representation of s holds at the
\* time of the call, and the call changes no Solution, no cell and not the
\* counter.
C8_LengthCorrectness ==
    [][last'.op = "len" =>
        /\ last'.ret = Cardinality(DOMAIN heap[sols[last'.arg].repr_].data)
        /\ UNCHANGED <<id_, sols, live, heap>>]_vars

\* len() of a list that has grown since its construction.
C8_Witness ==
    /\ last.op = "len"
    /\ heap[sols[last.arg].repr_].kind = "list"
    /\ last.ret = 2

\* C9: a call of _get_copy, returning or raising, changes no existing
\* Solution and no existing cell and advances the counter by exactly one;
\* the copy it returns has the valid of the original.
C9_CopyFrame ==
    [][last'.op = "copy" =>
        /\ \A i \in 1..Len(sols) : sols'[i] = sols[i]
        /\ \A a \in DOMAIN heap : a \in DOMAIN heap' /\ heap'[a] = heap[a]
        /\ live \subseteq live'
        /\ id_' = id_ + 1
        /\ last'.raised = 0 => sols'[last'.ret].valid = sols[last'.arg].valid]_vars

\* A copy was returned of a Solution whose valid had been set.
C9_Witness ==
    /\ last.op = "copy"
    /\ last.raised = 0
    /\ sols[last.arg].valid = "False"
    /\ sols[last.ret].valid = "False"

\* C10: the counter never decreases, is the number of Solutions ever
\* constructed (those constructed inside a call of _get_copy that raised
\* included) and is greater than the id of each; no other Solution has the
\* id of one constructed inside a call that raised.
C10_CounterInvariant ==
    /\ [](/\ id_ = Len(sols)
          /\ \A i \in 1..Len(sols) : sols[i]._id < id_
          /\ \A i \in 1..Len(sols) : i \notin live =>
                \A j \in 1..Len(sols) : j # i => sols[j]._id # sols[i]._id)
    /\ [][id_' >= id_]_vars

\* A call of _get_copy raised and a Solution was constructed after it.
C10_Witness ==
    \E i, j \in 1..Len(sols) : i \notin live /\ i < j

====
